---- MODULE Spec2Model ----
(***************************************************************************)
(* Order-fulfilment core of the warehouse application (src/inventory.js):  *)
(* the tables inventory_items and order_shipments, and the operations on   *)
(* them.  Every `await sql` of updateOrderShipmentStatus is one step, since *)
(* the function runs its statements outside any transaction and other      *)
(* requests are served between them.                                        *)
(*                                                                         *)
(* A nullable column or JS value is a sequence: <<>> is NULL/undefined,    *)
(* <<v>> is the value v.                                                    *)
(***************************************************************************)
EXTENDS Integers, Sequences, FiniteSets, TLC

\* ---------------------------------------------------------------- bounds
MaxStock == 2
MaxShipments == 2
MaxCalls == 3
MaxConcCalls == 2
MaxConcShipments == 1
MaxSeqShipments == 1
MaxEdits == 1
MaxItems == 3
MaxInvOps == 2
MaxSyncs == 2
MaxGets == 3

\* ------------------------------------------------------- nullable values
Null == <<>>
Some(v) == <<v>>
IsNull(x) == x = <<>>
Val(x) == x[1]

\* JS truthiness of a nullable string / number (null, '' and 0 are falsy)
TruthyStr(x) == (~IsNull(x)) /\ Val(x) # ""
TruthyNum(x) == (~IsNull(x)) /\ Val(x) # 0

\* ------------------------------------------------------------ input sets
Procs == {1, 2}
ItemIds == {1, 2}
ShipIds == 1..MaxShipments
StatusInputs == {"processing", "shipped", "delivered", "cancelled"}
CreateStatusInputs == {Null, Some("Shipped")}
\* the orders clients submit: the item ordered and how many of it
OrderInputs == {[item_code |-> Some("A"), quantity |-> Some(1)],
                [item_code |-> Some("A"), quantity |-> Some(2)],
                [item_code |-> Some("Z"), quantity |-> Some(1)],
                [item_code |-> Null, quantity |-> Null]}
EditStatusInputs == {"processing", "shipped"}
OrderIdInputs == {"O1"}
OptionInputs == {[setShipDate |-> Null, setDeliveryDate |-> Null],
                 [setShipDate |-> Some("D1"), setDeliveryDate |-> Some("D2")]}
RandDen == 1000
RandInputs == {0, RandDen - 1}

\* production_planning rows (written by another application)
Plans == {[order_id |-> "O1", product_id |-> Some(1), quantity |-> Some(2), status |-> "processed",
           planned_date |-> Some("D0"), shipping_date |-> Some("D0")],
          [order_id |-> "O3", product_id |-> Some(1), quantity |-> Some(1), status |-> "planned",
           planned_date |-> Some("D0"), shipping_date |-> Null]}

VARIABLES items, shipments, nextShipId, call, outcome, stock0, sync, deductCount, deductQty, nCalls, nEdits, nInvOps, db, report

vars == <<items, shipments, nextShipId, call, outcome, stock0, sync, deductCount, deductQty, nCalls, nEdits, nInvOps, db, report>>

\* String(x || '').toLowerCase() on the status strings in use
Lower(s) ==
    CASE s = "Shipped" -> "shipped"
      [] s = "SHIPPED" -> "shipped"
      [] s = "Delivered" -> "delivered"
      [] OTHER -> s

\* mutant: six random digits without the 100000 offset
generatedTrackingNoOffset(r) == (r * 1000000) \div RandDen

\* Math.floor(100000 + Math.random() * 900000); r / RandDen is the random draw
generatedTrackingOf(r) == 100000 + ((r * 900000) \div RandDen)

\* `TRCK${...}`: the prefix followed by the decimal digits of the number
trackingNumberOf(r) == [prefix |-> "TRCK", number |-> generatedTrackingOf(r)]

idleCall ==
    [pc |-> "idle", id |-> 0, status |-> "", setShipDate |-> Null, setDeliveryDate |-> Null,
     generatedTracking |-> Null, current |-> Null, requiredQty |-> 0, invItem |-> Null,
     updatedStock |-> FALSE]

\* a run of syncProcessedPlansIntoShipments: the rows its SELECT produced, not yet inserted
idleSync == [pc |-> "idle", rows |-> {}]

\* database.js before the first use: let sql = null; let connectionPromise = null;
\* run is the position of the initialization run, caller what each user of the handle does
idleDb == [sql |-> FALSE, connectionPromise |-> "null", run |-> "none", retries |-> 0, delay |-> 0,
           attempts |-> 0, started |-> 0, waited |-> 0, caller |-> [p \in Procs |-> "idle"],
           returned |-> "none", gets |-> 0]

\* what the most recent report operation handed to its caller
noReport == [op |-> "none", storage |-> "ok", threw |-> FALSE, value |-> "none"]

\* what the most recently finished call handed to its caller
noOutcome == [updatedStock |-> FALSE, result |-> "none"]

Init ==
    /\ \E q1 \in 1..MaxStock :
          items = (1 :> [item_code |-> "A", product_id |-> 1, total_quantity |-> q1, status |-> "active"])
               @@ (2 :> [item_code |-> "B", product_id |-> 1, total_quantity |-> 1, status |-> "active"])
    /\ stock0 = [i \in ItemIds |-> items[i].total_quantity]
    /\ shipments = <<>>
    /\ nextShipId = 1
    /\ call = [p \in Procs |-> idleCall]
    /\ outcome = noOutcome
    /\ sync = [runs |-> 0, run |-> [p \in Procs |-> idleSync]]
    /\ deductCount = [s \in ShipIds |-> 0]
    /\ deductQty = [i \in ItemIds |-> 0]
    /\ nCalls = 0
    /\ nEdits = 0
    /\ nInvOps = 0
    /\ db = idleDb
    /\ report = noReport

\* ------------------------------------------------ updateOrderShipmentStatus
\* mutant: the option is passed on as given
setDateOfAsGiven(opt) == opt

\* options.setShipDate ? options.setShipDate : null
setDateOf(opt) == IF TruthyStr(opt) THEN opt ELSE Null

\* mutant: a missing quantity counts as one unit
requiredQtyOrOne(q) == IF IsNull(q) \/ Val(q) = 0 THEN 1 ELSE Val(q)

\* Number(current.quantity) || 0
requiredQtyOf(q) == IF IsNull(q) THEN 0 ELSE Val(q)

\* mutant: the test forgets the 'shipped' case
FirstTransitionDeliveredOnly(currentStatus) == currentStatus # "delivered"

\* mutant: the test forgets the 'delivered' case
FirstTransitionShippedOnly(currentStatus) == currentStatus # "shipped"

\* currentStatus !== 'shipped' && currentStatus !== 'delivered'
FirstTransition(currentStatus) == currentStatus # "shipped" /\ currentStatus # "delivered"

\* mutant: the UPDATE has no sufficiency predicate
StockGuardNone(total_quantity, requiredQty) == TRUE

\* mutant: the sufficiency predicate is off by one
StockGuardOffByOne(total_quantity, requiredQty) == total_quantity >= requiredQty - 1

\* WHERE ... total_quantity >= requiredQty
StockGuard(total_quantity, requiredQty) == total_quantity >= requiredQty

\* mutant: only a negative remainder marks the item out of stock
StockStatusNegativeOnly(item, requiredQty) ==
    IF item.total_quantity - requiredQty < 0 THEN "out of stock" ELSE item.status

\* CASE WHEN total_quantity - requiredQty <= 0 THEN 'out of stock' ELSE status END
StockStatus(item, requiredQty) ==
    IF item.total_quantity - requiredQty <= 0 THEN "out of stock" ELSE item.status

\* COALESCE(a, b)
Coalesce(a, b) == IF IsNull(a) THEN b ELSE a

\* the call is over: its locals go out of scope, its outcome stays for the caller
Finish(p, result) ==
    /\ call' = [call EXCEPT ![p] = idleCall]
    /\ outcome' = [updatedStock |-> call[p].updatedStock, result |-> result]

Throw(p, msg) == Finish(p, msg)

\* the call goes on to its next statement
Continue(p, locals) ==
    /\ call' = [call EXCEPT ![p] = locals]
    /\ UNCHANGED outcome

\* mutant: every target status runs the deduction block
BeginAlwaysDeduct(p, id, status, optShip, optDelivery, r) ==
    /\ call[p].pc = "idle"
    /\ \A q \in Procs : q < p => call[q].pc # "idle"
    /\ nCalls < MaxCalls
    /\ nCalls' = nCalls + 1
    /\ LET willSetTracking == Lower(status) = "shipped"
       IN call' = [call EXCEPT ![p] =
              [idleCall EXCEPT
                 !.pc = "read",
                 !.id = id,
                 !.status = status,
                 !.setShipDate = setDateOf(optShip),
                 !.setDeliveryDate = setDateOf(optDelivery),
                 !.generatedTracking =
                     IF willSetTracking THEN Some(trackingNumberOf(r)) ELSE Null]]
    /\ UNCHANGED <<items, shipments, nextShipId, outcome, stock0, sync, deductCount, deductQty, nEdits, nInvOps, db, report>>

\* lines 1178-1187: the function's synchronous prologue
Begin(p, id, status, optShip, optDelivery, r) ==
    /\ call[p].pc = "idle"
    /\ \A q \in Procs : q < p => call[q].pc # "idle"
    /\ nCalls < MaxCalls
    /\ nCalls' = nCalls + 1
    /\ LET willSetTracking == Lower(status) = "shipped"
       IN call' = [call EXCEPT ![p] =
              [idleCall EXCEPT
                 !.pc = IF Lower(status) = "shipped" THEN "read" ELSE "update",
                 !.id = id,
                 !.status = status,
                 !.setShipDate = setDateOf(optShip),
                 !.setDeliveryDate = setDateOf(optDelivery),
                 !.generatedTracking =
                     IF willSetTracking THEN Some(trackingNumberOf(r)) ELSE Null]]
    /\ UNCHANGED <<items, shipments, nextShipId, outcome, stock0, sync, deductCount, deductQty, nEdits, nInvOps, db, report>>

\* lines 1188-1196, 1200, 1204: SELECT status, item_code, product_id, quantity
ReadShipment(p) ==
    /\ call[p].pc = "read"
    /\ IF call[p].id \notin DOMAIN shipments
       THEN Throw(p, "Order not found")
       ELSE LET row == shipments[call[p].id]
                current == [status |-> row.status, item_code |-> row.item_code,
                            product_id |-> row.product_id, quantity |-> row.quantity]
                requiredQty == requiredQtyOf(current.quantity)
            IN IF FirstTransition(Lower(current.status)) /\ requiredQty > 0
               THEN IF TruthyStr(current.item_code)
                    THEN Continue(p, [call[p] EXCEPT !.pc = "byCode", !.current = Some(current),
                                                             !.requiredQty = requiredQty])
                    ELSE IF TruthyNum(current.product_id)
                    THEN Continue(p, [call[p] EXCEPT !.pc = "byProduct", !.current = Some(current),
                                                             !.requiredQty = requiredQty])
                    ELSE Throw(p, "you cannot ship the item")
               ELSE Continue(p, [call[p] EXCEPT !.pc = "update"])
    /\ UNCHANGED <<items, shipments, nextShipId, stock0, sync, deductCount, deductQty, nCalls, nEdits, nInvOps, db, report>>

\* mutant: an unresolved item skips the deduction instead of throwing
LookupByCodeNoThrow(p) ==
    /\ call[p].pc = "byCode"
    /\ LET current == Val(call[p].current)
           itemsByCode == {i \in DOMAIN items : items[i].item_code = Val(current.item_code)}
       IN IF itemsByCode # {}
          THEN \E i \in itemsByCode :
                  Continue(p, [call[p] EXCEPT !.pc = "decrement", !.invItem = Some(i)])
          ELSE IF TruthyNum(current.product_id)
          THEN Continue(p, [call[p] EXCEPT !.pc = "byProduct"])
          ELSE Continue(p, [call[p] EXCEPT !.pc = "update"])
    /\ UNCHANGED <<items, shipments, nextShipId, stock0, sync, deductCount, deductQty, nCalls, nEdits, nInvOps, db, report>>

\* mutant: the lookup by code only takes an item that holds enough stock
LookupByCodeSufficient(p) ==
    /\ call[p].pc = "byCode"
    /\ LET current == Val(call[p].current)
           itemsByCode == {i \in DOMAIN items : /\ items[i].item_code = Val(current.item_code)
                                                /\ items[i].total_quantity >= call[p].requiredQty}
       IN IF itemsByCode # {}
          THEN \E i \in itemsByCode :
                  Continue(p, [call[p] EXCEPT !.pc = "decrement", !.invItem = Some(i)])
          ELSE IF TruthyNum(current.product_id)
          THEN Continue(p, [call[p] EXCEPT !.pc = "byProduct"])
          ELSE Throw(p, "you cannot ship the item")
    /\ UNCHANGED <<items, shipments, nextShipId, stock0, sync, deductCount, deductQty, nCalls, nEdits, nInvOps, db, report>>

\* lines 1197-1198, 1200, 1204: SELECT ... WHERE item_code = current.item_code LIMIT 1
LookupByCode(p) ==
    /\ call[p].pc = "byCode"
    /\ LET current == Val(call[p].current)
           itemsByCode == {i \in DOMAIN items : items[i].item_code = Val(current.item_code)}
       IN IF itemsByCode # {}
          THEN \E i \in itemsByCode :
                  Continue(p, [call[p] EXCEPT !.pc = "decrement", !.invItem = Some(i)])
          ELSE IF TruthyNum(current.product_id)
          THEN Continue(p, [call[p] EXCEPT !.pc = "byProduct"])
          ELSE Throw(p, "you cannot ship the item")
    /\ UNCHANGED <<items, shipments, nextShipId, stock0, sync, deductCount, deductQty, nCalls, nEdits, nInvOps, db, report>>

\* mutant: ORDER BY total_quantity in ascending order
LookupByProductSmallest(p) ==
    /\ call[p].pc = "byProduct"
    /\ LET current == Val(call[p].current)
           itemsByProduct == {i \in DOMAIN items : items[i].product_id = Val(current.product_id)}
           first == {i \in itemsByProduct :
                        \A j \in itemsByProduct : items[j].total_quantity >= items[i].total_quantity}
       IN IF itemsByProduct # {}
          THEN \E i \in first :
                  Continue(p, [call[p] EXCEPT !.pc = "decrement", !.invItem = Some(i)])
          ELSE Throw(p, "you cannot ship the item")
    /\ UNCHANGED <<items, shipments, nextShipId, stock0, sync, deductCount, deductQty, nCalls, nEdits, nInvOps, db, report>>

\* lines 1201-1206: SELECT ... WHERE product_id = ... ORDER BY total_quantity DESC LIMIT 1
\* (rows of equal total_quantity come in either order)
LookupByProduct(p) ==
    /\ call[p].pc = "byProduct"
    /\ LET current == Val(call[p].current)
           itemsByProduct == {i \in DOMAIN items : items[i].product_id = Val(current.product_id)}
           first == {i \in itemsByProduct :
                        \A j \in itemsByProduct : items[j].total_quantity <= items[i].total_quantity}
       IN IF itemsByProduct # {}
          THEN \E i \in first :
                  Continue(p, [call[p] EXCEPT !.pc = "decrement", !.invItem = Some(i)])
          ELSE Throw(p, "you cannot ship the item")
    /\ UNCHANGED <<items, shipments, nextShipId, stock0, sync, deductCount, deductQty, nCalls, nEdits, nInvOps, db, report>>

\* lines 1207-1217: the guarded UPDATE inventory_items
DecrementStock(p) ==
    /\ call[p].pc = "decrement"
    /\ LET i == Val(call[p].invItem)
           requiredQty == call[p].requiredQty
       IN IF i \in DOMAIN items /\ StockGuard(items[i].total_quantity, requiredQty)
          THEN /\ items' = [items EXCEPT
                      ![i].total_quantity = items[i].total_quantity - requiredQty,
                      ![i].status = StockStatus(items[i], requiredQty)]
               /\ Continue(p, [call[p] EXCEPT !.pc = "update", !.updatedStock = TRUE])
               /\ deductCount' = [deductCount EXCEPT ![call[p].id] = @ + 1]
               /\ deductQty' = [deductQty EXCEPT ![i] = @ + requiredQty]
          ELSE /\ Throw(p, "you cannot ship the item")
               /\ UNCHANGED <<items, deductCount, deductQty>>
    /\ UNCHANGED <<shipments, nextShipId, stock0, sync, nCalls, nEdits, nInvOps, db, report>>

\* mutant: a transition into 'shipped' always stores the new tracking number
TrackingAfterOverwrite(willSetTracking, tracking_number, generatedTracking) ==
    IF willSetTracking THEN generatedTracking ELSE tracking_number

\* tracking_number = CASE WHEN willSetTracking THEN COALESCE(tracking_number, generated) ELSE tracking_number END
TrackingAfter(willSetTracking, tracking_number, generatedTracking) ==
    IF willSetTracking THEN Coalesce(tracking_number, generatedTracking) ELSE tracking_number

\* mutant: cancelling a shipped shipment gives its quantity back to the item
UpdateShipmentRestoring(p) ==
    /\ call[p].pc = "update"
    /\ LET id == call[p].id
       IN IF id \in DOMAIN shipments
          THEN /\ shipments' = [shipments EXCEPT
                      ![id].status = call[p].status,
                      ![id].ship_date = Coalesce(call[p].setShipDate, shipments[id].ship_date),
                      ![id].delivery_date = Coalesce(call[p].setDeliveryDate, shipments[id].delivery_date),
                      ![id].tracking_number =
                          TrackingAfter(Lower(call[p].status) = "shipped",
                                        shipments[id].tracking_number, call[p].generatedTracking)]
               /\ items' = [i \in DOMAIN items |->
                              IF /\ Lower(call[p].status) = "cancelled"
                                 /\ Lower(shipments[id].status) = "shipped"
                                 /\ TruthyStr(shipments[id].item_code)
                                 /\ items[i].item_code = Val(shipments[id].item_code)
                              THEN [items[i] EXCEPT
                                      !.total_quantity = @ + requiredQtyOf(shipments[id].quantity)]
                              ELSE items[i]]
               /\ Finish(p, "row")
          ELSE /\ Finish(p, "undefined")
               /\ UNCHANGED <<shipments, items>>
    /\ UNCHANGED <<nextShipId, stock0, sync, deductCount, deductQty, nCalls, nEdits, nInvOps, db, report>>

\* lines 1222-1233: UPDATE order_shipments ... WHERE id = ${id} RETURNING *; return result[0]
UpdateShipment(p) ==
    /\ call[p].pc = "update"
    /\ LET id == call[p].id
       IN IF id \in DOMAIN shipments
          THEN /\ shipments' = [shipments EXCEPT
                      ![id].status = call[p].status,
                      ![id].ship_date = Coalesce(call[p].setShipDate, shipments[id].ship_date),
                      ![id].delivery_date = Coalesce(call[p].setDeliveryDate, shipments[id].delivery_date),
                      ![id].tracking_number =
                          TrackingAfter(Lower(call[p].status) = "shipped",
                                        shipments[id].tracking_number, call[p].generatedTracking)]
               /\ Finish(p, "row")
          ELSE /\ Finish(p, "undefined")
               /\ UNCHANGED shipments
    /\ UNCHANGED <<items, nextShipId, stock0, sync, deductCount, deductQty, nCalls, nEdits, nInvOps, db, report>>

\* an awaited sql statement rejects (the database is unreachable or refuses it):
\* the catch block logs the error and rethrows it
StorageFails(p) ==
    /\ call[p].pc \in {"read", "byCode", "byProduct", "decrement", "update"}
    /\ Throw(p, "storage error")
    /\ UNCHANGED <<items, shipments, nextShipId, stock0, sync, deductCount, deductQty, nCalls, nEdits, nInvOps, db, report>>

Step(p) ==
    \/ ReadShipment(p)
    \/ LookupByCode(p)
    \/ LookupByProduct(p)
    \/ DecrementStock(p)
    \/ UpdateShipment(p)

\* ------------------------------------------------------- inventory items
\* item_code VARCHAR(50) UNIQUE NOT NULL: no other row may hold the code
CodeIsFree(item_code, id) == \A i \in DOMAIN items : i # id => items[i].item_code # item_code

\* createInventoryItem: INSERT INTO inventory_items (...) VALUES (...); id is SERIAL
createInventoryItem(item_code, product_id, status, total_quantity) ==
    LET id == Cardinality(DOMAIN items) + 1
    IN /\ id <= MaxItems
       /\ nInvOps < MaxInvOps
       /\ nInvOps' = nInvOps + 1
       /\ IF CodeIsFree(item_code, id)
          THEN /\ items' = items @@ (id :> [item_code |-> item_code, product_id |-> product_id,
                                           total_quantity |-> total_quantity, status |-> status])
               /\ stock0' = stock0 @@ (id :> total_quantity)
               /\ deductQty' = deductQty @@ (id :> 0)
          ELSE UNCHANGED <<items, stock0, deductQty>>
       /\ UNCHANGED <<shipments, nextShipId, call, outcome, sync, deductCount, nCalls, nEdits, db, report>>

\* updateInventoryItem: UPDATE inventory_items SET <every listed column> WHERE id = ${id}
updateInventoryItem(id, item_code, product_id, status, total_quantity) ==
    /\ nInvOps < MaxInvOps
    /\ nInvOps' = nInvOps + 1
    /\ IF id \in DOMAIN items /\ CodeIsFree(item_code, id)
       THEN items' = [items EXCEPT ![id] = [item_code |-> item_code, product_id |-> product_id,
                                            total_quantity |-> total_quantity, status |-> status]]
       ELSE UNCHANGED items
    /\ UNCHANGED <<shipments, nextShipId, call, outcome, stock0, sync, deductCount, deductQty, nCalls, nEdits, db, report>>

\* GREATEST(a, b)
Greatest(a, b) == IF a >= b THEN a ELSE b

\* the SET clause updateItemQuantity picks for its operation
quantityAfter(item, newQuantity, operation) ==
    IF operation = "add"
    THEN [item EXCEPT !.total_quantity = item.total_quantity + newQuantity]
    ELSE IF operation = "subtract"
    THEN [item EXCEPT
            !.total_quantity = Greatest(item.total_quantity - newQuantity, 0),
            !.status = IF Greatest(item.total_quantity - newQuantity, 0) <= 0
                       THEN "out of stock" ELSE item.status]
    ELSE [item EXCEPT
            !.total_quantity = newQuantity,
            !.status = IF newQuantity <= 0 THEN "out of stock" ELSE item.status]

\* updateItemQuantity(id, newQuantity, operation = 'set')
updateItemQuantity(id, newQuantity, operation) ==
    /\ nInvOps < MaxInvOps
    /\ nInvOps' = nInvOps + 1
    /\ IF id \in DOMAIN items
       THEN items' = [items EXCEPT ![id] = quantityAfter(items[id], newQuantity, operation)]
       ELSE UNCHANGED items
    /\ UNCHANGED <<shipments, nextShipId, call, outcome, stock0, sync, deductCount, deductQty, nCalls, nEdits, db, report>>

\* ------------------------------------------------------ database handle
\* let retries = 5;
Retries == 5
\* let delay = 1000;
InitialDelay == 1000
\* Math.min(..., 5000)
MaxDelay == 5000

\* what process.env.DATABASE_URL holds when the initialization run reads it
UrlInputs == {"unset", "neon", "other"}

Min(a, b) == IF a <= b THEN a ELSE b

\* mutant: the delay grows without the cap
nextDelayUncapped(delay) == (delay * 3) \div 2

\* delay = Math.min(delay * 1.5, 5000), in whole milliseconds
nextDelay(delay) == Min((delay * 3) \div 2, MaxDelay)

\* mutant: a run that ended without a handle does not count as a run
PromiseMissingOrNoHandle(d) ==
    d.connectionPromise = "null" \/ (d.connectionPromise = "resolved" /\ ~d.sql)

\* if (!connectionPromise)
PromiseMissing(d) == d.connectionPromise = "null"

otherDb == <<items, shipments, nextShipId, call, outcome, stock0, sync, deductCount, deductQty, nCalls, nEdits, nInvOps, report>>

\* initializeConnection up to the first await of the run it starts, if it starts one
initializeConnection(d, url) ==
    IF ~PromiseMissing(d) THEN d
    ELSE IF url = "unset"
    THEN [d EXCEPT !.connectionPromise = "resolved", !.run = "done", !.sql = FALSE,
                   !.started = @ + 1]
    ELSE [d EXCEPT !.connectionPromise = "pending", !.started = @ + 1,
                   !.retries = Retries, !.delay = InitialDelay,
                   !.run = IF url = "neon" THEN "startup" ELSE "test"]

\* getSql and the exported sql(): if (!sql) await initializeConnection(); return sql
getSql(p) ==
    /\ db.caller[p] = "idle"
    /\ db.gets < MaxGets
    /\ IF db.sql
       THEN db' = [db EXCEPT !.returned = "handle", !.gets = @ + 1]
       ELSE \E url \in UrlInputs :
               db' = [initializeConnection(db, url) EXCEPT !.caller[p] = "awaiting", !.gets = @ + 1]
    /\ UNCHANGED otherDb

\* the caller's await is over: return sql
Resume(p) ==
    /\ db.caller[p] = "awaiting"
    /\ db.connectionPromise = "resolved"
    /\ db' = [db EXCEPT !.caller[p] = "idle",
                        !.returned = IF db.sql THEN "handle" ELSE "null"]
    /\ UNCHANGED otherDb

\* the 3 seconds given to a Neon database are over
StartupDone ==
    /\ db.run = "startup"
    /\ db' = [db EXCEPT !.run = "test"]
    /\ UNCHANGED otherDb

\* await connection`SELECT 1` answers or rejects
TestConnection ==
    /\ db.run = "test"
    /\ \E ok \in BOOLEAN :
          db' = IF ok
                THEN [db EXCEPT !.attempts = @ + 1, !.sql = TRUE, !.run = "done",
                                !.connectionPromise = "resolved"]
                ELSE IF db.retries - 1 > 0
                THEN [db EXCEPT !.attempts = @ + 1, !.retries = @ - 1, !.run = "wait"]
                ELSE [db EXCEPT !.attempts = @ + 1, !.retries = @ - 1, !.sql = FALSE,
                                !.run = "done", !.connectionPromise = "resolved"]
    /\ UNCHANGED otherDb

\* await new Promise(resolve => setTimeout(resolve, delay)); then the delay grows
WaitBeforeRetry ==
    /\ db.run = "wait"
    /\ db' = [db EXCEPT !.waited = db.delay, !.delay = nextDelay(db.delay), !.run = "test"]
    /\ UNCHANGED otherDb

\* ------------------------------------------------------------- reports
\* the read-only aggregate operations
ReportOps == {"getInventoryStats", "getStockOverview", "getStockByCategory", "getStockByWarehouse",
              "getOrderShipmentStats", "getShippingZoneStats", "getRecentOrderShipmentActivity",
              "getZoneStats"}

\* what the storage does for a report: its queries answer ("ok"), one of them rejects
\* ("fails"), or there is no connection and the handle is null ("null")
StorageInputs == {"ok", "fails", "null"}

\* if (!sql) return {totalItems: 0, ...}  ...  catch (err) { return {totalItems: 0, ...} }
ZeroedOnFailure == {"getInventoryStats", "getStockOverview"}

\* if (!sql) return [];  ...  catch (err) { return []; }
EmptyOnFailure == {"getStockByCategory", "getStockByWarehouse", "getRecentOrderShipmentActivity"}

\* no test of the handle, and catch (err) { console.error(...); throw err; }
\* (a null handle used as a template tag throws a TypeError inside the try)
reportOutcome(op, storage) ==
    IF storage = "ok" THEN [op |-> op, storage |-> storage, threw |-> FALSE, value |-> "result"]
    ELSE IF op \in ZeroedOnFailure THEN [op |-> op, storage |-> storage, threw |-> FALSE, value |-> "zeroed"]
    ELSE IF op \in EmptyOnFailure THEN [op |-> op, storage |-> storage, threw |-> FALSE, value |-> "empty"]
    ELSE [op |-> op, storage |-> storage, threw |-> TRUE, value |-> "error"]

Report ==
    \E op \in ReportOps, storage \in StorageInputs :
        /\ report' = reportOutcome(op, storage)
        /\ UNCHANGED <<items, shipments, nextShipId, call, outcome, stock0, sync, deductCount, deductQty, nCalls, nEdits, nInvOps, db>>

\* ------------------------------------------------------ shipment catalogue
\* createOrderShipment: INSERT INTO order_shipments (...), status = ${status || 'processing'}
createStatusOf(status) == IF TruthyStr(status) THEN Val(status) ELSE "processing"

createOrderShipment(order_id, item_code, quantity, status, ship_date, delivery_date, tracking_number) ==
    /\ nextShipId <= MaxShipments
    /\ shipments' = (nextShipId :>
                        [order_id |-> order_id, item_code |-> item_code, product_id |-> Null,
                         quantity |-> quantity, status |-> createStatusOf(status),
                         ship_date |-> ship_date, delivery_date |-> delivery_date,
                         tracking_number |-> tracking_number]) @@ shipments
    /\ nextShipId' = nextShipId + 1
    /\ UNCHANGED <<items, call, outcome, stock0, sync, deductCount, deductQty, nCalls, nEdits, nInvOps, db, report>>

\* updateOrderShipment: UPDATE order_shipments SET <every listed column> WHERE id = ${id}
updateOrderShipment(id, order_id, item_code, quantity, status, ship_date, delivery_date, tracking_number) ==
    /\ nEdits < MaxEdits
    /\ nEdits' = nEdits + 1
    /\ shipments' = IF id \in DOMAIN shipments
                    THEN [shipments EXCEPT ![id] =
                            [@ EXCEPT !.order_id = order_id, !.item_code = item_code,
                                      !.quantity = quantity, !.status = status,
                                      !.ship_date = ship_date, !.delivery_date = delivery_date,
                                      !.tracking_number = tracking_number]]
                    ELSE shipments
    /\ UNCHANGED <<items, nextShipId, call, outcome, stock0, sync, deductCount, deductQty, nCalls, nInvOps, db, report>>

\* mutant: deleting a shipped or delivered shipment gives its quantity back to the item
deleteOrderShipmentRestoring(id) ==
    /\ id \in DOMAIN shipments
    /\ shipments' = [s \in (DOMAIN shipments) \ {id} |-> shipments[s]]
    /\ items' = [i \in DOMAIN items |->
                   IF /\ Lower(shipments[id].status) \in {"shipped", "delivered"}
                      /\ TruthyStr(shipments[id].item_code)
                      /\ items[i].item_code = Val(shipments[id].item_code)
                   THEN [items[i] EXCEPT !.total_quantity = @ + requiredQtyOf(shipments[id].quantity)]
                   ELSE items[i]]
    /\ UNCHANGED <<nextShipId, call, outcome, stock0, sync, deductCount, deductQty, nCalls, nEdits, nInvOps, db, report>>

\* deleteOrderShipment: DELETE FROM order_shipments WHERE id = ${id}
deleteOrderShipment(id) ==
    /\ id \in DOMAIN shipments
    /\ shipments' = [s \in (DOMAIN shipments) \ {id} |-> shipments[s]]
    /\ UNCHANGED <<items, nextShipId, call, outcome, stock0, sync, deductCount, deductQty, nCalls, nEdits, nInvOps, db, report>>

\* the row the sync's INSERT ... SELECT builds from a production plan
\* (production_planning.shipping_date exists, so the first branch runs)
planRow(pp) ==
    [order_id |-> pp.order_id, item_code |-> Null, product_id |-> pp.product_id,
     quantity |-> pp.quantity, status |-> "processed",
     ship_date |-> pp.shipping_date, delivery_date |-> Null, tracking_number |-> Null]

\* mutant: the SELECT without its NOT EXISTS clause
plansToInsertUnchecked(tbl) == {pp \in Plans : pp.status = "processed"}

\* WHERE pp.status = 'processed' AND NOT EXISTS (SELECT 1 FROM order_shipments os WHERE os.order_id = pp.order_id)
plansToInsert(tbl) ==
    {pp \in Plans : pp.status = "processed" /\ \A s \in DOMAIN tbl : tbl[s].order_id # pp.order_id}

RECURSIVE insertPlans(_, _, _)
insertPlans(tbl, next, pps) ==
    IF pps = {} THEN tbl
    ELSE LET pp == CHOOSE x \in pps : TRUE
         IN insertPlans((next :> planRow(pp)) @@ tbl, next + 1, pps \ {pp})

\* syncProcessedPlansIntoShipments: one INSERT ... SELECT statement
syncProcessedPlansIntoShipments ==
    /\ nextShipId + Cardinality(plansToInsert(shipments)) <= MaxShipments + 1
    /\ shipments' = insertPlans(shipments, nextShipId, plansToInsert(shipments))
    /\ nextShipId' = nextShipId + Cardinality(plansToInsert(shipments))
    /\ UNCHANGED <<items, call, outcome, stock0, sync, deductCount, deductQty, nCalls, nEdits, nInvOps, db, report>>

\* the INSERT ... SELECT statement evaluates its SELECT, NOT EXISTS included, on the
\* rows committed when the statement starts
SyncSelect(p) ==
    /\ sync.run[p].pc = "idle"
    /\ \A q \in Procs : q < p => sync.run[q].pc # "idle"
    /\ sync.runs + Cardinality({q \in Procs : sync.run[q].pc # "idle"}) < MaxSyncs
    /\ sync' = [sync EXCEPT !.run[p] = [pc |-> "insert", rows |-> plansToInsert(shipments)]]
    /\ UNCHANGED <<items, shipments, nextShipId, call, outcome, stock0, deductCount, deductQty, nCalls, nEdits, nInvOps, db, report>>

\* ... and then inserts the selected rows; nothing makes it look again
SyncInsert(p) ==
    /\ sync.run[p].pc = "insert"
    /\ nextShipId + Cardinality(sync.run[p].rows) <= MaxShipments + 1
    /\ shipments' = insertPlans(shipments, nextShipId, sync.run[p].rows)
    /\ nextShipId' = nextShipId + Cardinality(sync.run[p].rows)
    /\ sync' = [sync EXCEPT !.runs = @ + 1, !.run[p] = idleSync]
    /\ UNCHANGED <<items, call, outcome, stock0, deductCount, deductQty, nCalls, nEdits, nInvOps, db, report>>

\* ------------------------------------------------------------ specifications
Create ==
    \E o \in OrderIdInputs, d \in OrderInputs, st \in CreateStatusInputs :
        createOrderShipment(o, d.item_code, d.quantity, st, Null, Null, Null)

Edit ==
    \E id \in ShipIds, d \in OrderInputs, st \in EditStatusInputs :
        /\ id \in DOMAIN shipments
        /\ updateOrderShipment(id, shipments[id].order_id, d.item_code, d.quantity, st,
                               shipments[id].ship_date, shipments[id].delivery_date,
                               shipments[id].tracking_number)

Delete == \E id \in ShipIds : deleteOrderShipment(id)

Sync == syncProcessedPlansIntoShipments

Call ==
    \E p \in Procs, id \in ShipIds, st \in StatusInputs, o \in OptionInputs, r \in RandInputs :
        Begin(p, id, st, o.setShipDate, o.setDeliveryDate, r)

Steps == \E p \in Procs : Step(p)

\* every kind of request, served concurrently with every other
Next ==
    \/ nCalls < MaxConcCalls /\ Call
    \/ Steps
    \/ nextShipId <= MaxConcShipments /\ Create
    \/ Edit
    \/ Delete
    \/ nextShipId <= MaxConcShipments /\ Sync

Spec == Init /\ [][Next]_vars

\* only 'mark shipped' requests, served concurrently
CallShipped ==
    \E p \in Procs, id \in ShipIds, r \in RandInputs :
        Begin(p, id, "shipped", Null, Null, r)

CreateProcessing ==
    \E o \in OrderIdInputs, d \in OrderInputs :
        createOrderShipment(o, d.item_code, d.quantity, Null, Null, Null, Null)

NextShipped == (nCalls < MaxConcCalls /\ CallShipped) \/ Steps \/ CreateProcessing \/ Sync

SpecShipped == Init /\ [][NextShipped]_vars

\* one request at a time: a request starts only when no other is in progress
AllIdle == \A p \in Procs : call[p].pc = "idle"

NextSeq ==
    \/ AllIdle /\ Call
    \/ Steps
    \/ AllIdle /\ nextShipId <= MaxSeqShipments /\ CreateProcessing
    \/ AllIdle /\ nextShipId <= MaxSeqShipments /\ Sync

SpecSeq == Init /\ [][NextSeq]_vars

\* POST /api/order-shipments/:id/status with a status and no date options
CallPlain ==
    \E p \in Procs, id \in ShipIds, status \in StatusInputs, r \in RandInputs :
        Begin(p, id, status, Null, Null, r)

\* status requests with any target, served concurrently, on shipments created in 'processing'
NextCalls ==
    \/ nCalls < MaxConcCalls /\ CallPlain
    \/ Steps
    \/ nextShipId <= MaxConcShipments /\ CreateProcessing
    \/ nextShipId <= MaxConcShipments /\ Sync

SpecCalls == Init /\ [][NextCalls]_vars

\* the quantities, codes and operations the inventory requests carry
QuantityInputs == {-1, 0, 2}
ItemCodeInputs == {"A", "C"}
OperationInputs == {"add", "subtract", "set", "replace"}

\* POST /api/inventory
CreateItem ==
    \E c \in ItemCodeInputs, n \in QuantityInputs : createInventoryItem(c, 2, "active", n)

\* PUT /api/inventory/:id
EditItem ==
    \E id \in 1..MaxItems, n \in QuantityInputs :
        id \in DOMAIN items /\ updateInventoryItem(id, items[id].item_code, items[id].product_id, "active", n)

\* a caller of the exported updateItemQuantity
AdjustQuantity ==
    \E id \in 1..MaxItems, n \in QuantityInputs, op \in OperationInputs : updateItemQuantity(id, n, op)

\* inventory requests and status requests, one request at a time
NextInv ==
    \/ CreateItem
    \/ EditItem
    \/ AdjustQuantity
    \/ AllIdle /\ CallPlain
    \/ Steps
    \/ AllIdle /\ nextShipId <= MaxSeqShipments /\ CreateProcessing
    \/ AllIdle /\ nextShipId <= MaxSeqShipments /\ Sync

SpecInv == Init /\ [][NextInv]_vars

SyncIdle == \A p \in Procs : sync.run[p].pc = "idle"

\* GET /api/order-shipments, one request at a time, between status requests
NextSyncSeq ==
    \/ AllIdle /\ SyncIdle /\ (\E p \in Procs : SyncSelect(p))
    \/ \E p \in Procs : SyncInsert(p)
    \/ AllIdle /\ SyncIdle /\ CallPlain
    \/ Steps
    \/ AllIdle /\ SyncIdle /\ nextShipId <= MaxSeqShipments /\ CreateProcessing

SpecSyncSeq == Init /\ [][NextSyncSeq]_vars

\* GET /api/order-shipments requests served concurrently, between status requests,
\* on a table that may hold a shipment entered by hand before the first of them
NextSync ==
    \/ \E p \in Procs : SyncSelect(p)
    \/ \E p \in Procs : SyncInsert(p)
    \/ AllIdle /\ CallPlain
    \/ Steps
    \/ SyncIdle /\ sync.runs = 0 /\ nextShipId <= MaxSeqShipments /\ CreateProcessing

SpecSync == Init /\ [][NextSync]_vars

\* one request at a time, against a database whose statements may fail
NextSeqFail ==
    \/ AllIdle /\ Call
    \/ Steps
    \/ \E p \in Procs : StorageFails(p)
    \/ AllIdle /\ nextShipId <= MaxSeqShipments /\ CreateProcessing
    \/ AllIdle /\ nextShipId <= MaxSeqShipments /\ Sync

SpecSeqFail == Init /\ [][NextSeqFail]_vars

\* PUT /api/order-shipments/:id changing the item code and quantity of a shipment
EditOrder ==
    \E id \in ShipIds, d \in OrderInputs :
        /\ id \in DOMAIN shipments
        /\ updateOrderShipment(id, shipments[id].order_id, d.item_code, d.quantity,
                               shipments[id].status, shipments[id].ship_date,
                               shipments[id].delivery_date, shipments[id].tracking_number)

\* users of the database handle, from the first use on
NextConn ==
    \/ \E p \in Procs : getSql(p)
    \/ \E p \in Procs : Resume(p)
    \/ StartupDone
    \/ TestConnection
    \/ WaitBeforeRetry

SpecConn == Init /\ [][NextConn]_vars

\* timers fire, the test query is answered or rejected, and an await whose promise
\* is resolved goes on
SpecConnLive ==
    /\ SpecConn
    /\ WF_vars(StartupDone)
    /\ WF_vars(TestConnection)
    /\ WF_vars(WaitBeforeRetry)
    /\ \A p \in Procs : WF_vars(Resume(p))

\* shipments entered without a quantity to take from stock
NoQuantityInputs == {Null, Some(0), Some(-1)}
NoQuantityCodes == {Null, Some("A"), Some("Z")}

CreateNoQuantity ==
    \E o \in OrderIdInputs, c \in NoQuantityCodes, q \in NoQuantityInputs :
        createOrderShipment(o, c, q, Null, Null, Null, Null)

\* status requests, one at a time, on shipments with and without a quantity
NextNoQuantity ==
    \/ AllIdle /\ CallPlain
    \/ Steps
    \/ AllIdle /\ nextShipId <= MaxSeqShipments /\ CreateNoQuantity
    \/ AllIdle /\ nextShipId <= MaxSeqShipments /\ CreateProcessing
    \/ AllIdle /\ nextShipId <= MaxSeqShipments /\ Sync

SpecNoQuantity == Init /\ [][NextNoQuantity]_vars

\* a date option as a request carries it: omitted or null, empty, or a date
DateInputs == {Null, Some(""), Some("D1")}

\* POST /api/order-shipments/:id/status with each date option in each of its forms
CallDated ==
    \E p \in Procs, id \in ShipIds, st \in StatusInputs, d1 \in DateInputs, d2 \in DateInputs :
        Begin(p, id, st, d1, d2, 0)

\* status requests with date options, one request at a time
NextDates ==
    \/ AllIdle /\ nCalls < MaxConcCalls /\ CallDated
    \/ Steps
    \/ AllIdle /\ nextShipId <= MaxSeqShipments /\ CreateProcessing
    \/ AllIdle /\ nextShipId <= MaxSeqShipments /\ Sync

SpecDates == Init /\ [][NextDates]_vars

\* shipments are entered and edited, then status requests are served one at a time;
\* an edit can give a synced shipment, which carries a product reference, an item code
NextResolve ==
    \/ AllIdle /\ CallPlain
    \/ Steps
    \/ nCalls = 0 /\ nextShipId <= MaxSeqShipments /\ CreateProcessing
    \/ nCalls = 0 /\ nextShipId <= MaxSeqShipments /\ Sync
    \/ nCalls = 0 /\ EditOrder

SpecResolve == Init /\ [][NextResolve]_vars

\* status requests one at a time, and deletions at any moment
NextDelete ==
    \/ AllIdle /\ CallPlain
    \/ Steps
    \/ AllIdle /\ nextShipId <= MaxSeqShipments /\ CreateProcessing
    \/ AllIdle /\ nextShipId <= MaxSeqShipments /\ Sync
    \/ Delete

SpecDelete == Init /\ [][NextDelete]_vars

\* reports and status requests, one request at a time, against a database whose
\* statements may fail
NextReports ==
    \/ AllIdle /\ Report
    \/ AllIdle /\ Call
    \/ Steps
    \/ \E p \in Procs : StorageFails(p)
    \/ AllIdle /\ nextShipId <= MaxSeqShipments /\ CreateProcessing
    \/ AllIdle /\ nextShipId <= MaxSeqShipments /\ Sync

SpecReports == Init /\ [][NextReports]_vars

\* /you cannot ship the item|Order not found/i.test(message)
isBusinessError(message) == message \in {"you cannot ship the item", "Order not found"}

\* the status endpoint's answer to what updateOrderShipmentStatus returned or threw
httpStatusOf(result) ==
    CASE result = "row" -> 200
      [] result = "undefined" -> 404
      [] OTHER -> IF isBusinessError(result) THEN 400 ELSE 500

\* ------------------------------------------------------------------ claims
CannotShip == "you cannot ship the item"

\* C1: concurrent 'mark shipped' calls on one shipment decrement the inventory
\* for that shipment at most once in total (stated as the claim; the code breaks it)
C1_ConcurrentShipDeductsOnce == \A s \in ShipIds : deductCount[s] <= 1

\* C2: under any interleaving of 'mark shipped' calls, no item's total_quantity is
\* negative and the quantity deducted from an item never exceeds the stock it had
C2_NoOverselling ==
    \A i \in DOMAIN items : items[i].total_quantity >= 0 /\ deductQty[i] <= stock0[i]

\* a call for a shipment not yet served stands before the guarded UPDATE of an item
\* that earlier deductions have left short of the quantity it needs
C2_Witness ==
    \E p \in Procs :
        /\ call[p].pc = "decrement"
        /\ deductCount[call[p].id] = 0
        /\ deductQty[Val(call[p].invItem)] > 0
        /\ items[Val(call[p].invItem)].total_quantity < call[p].requiredQty

\* C3: a finished call that decremented the stock also committed the shipment's
\* status change (stated as the claim; the code breaks it)
C3_AllOrNothing == outcome.updatedStock => outcome.result = "row"

\* C4: over any sequence of calls on a shipment, once its quantity has been deducted
\* it is never deducted again (stated as the claim; the code breaks it)
C4_SequentialDeductsOnce ==
    [][\A s \in ShipIds : deductCount[s] >= 1 => deductCount'[s] = deductCount[s]]_vars

\* C5: a 'mark shipped' call on a shipment that is already shipped or delivered
\* leaves every inventory item as it was and succeeds
C5_ReshipIdempotent ==
    [][\A p \in Procs :
          (/\ call[p].pc # "idle"
           /\ call'[p] # call[p]
           /\ Lower(call[p].status) = "shipped"
           /\ call[p].id \in DOMAIN shipments
           /\ Lower(shipments[call[p].id].status) \in {"shipped", "delivered"})
          => (items' = items /\ (call'[p].pc = "idle" => outcome'.result = "row"))]_vars

\* the only shipment is shipped, was deducted once, and a later 'mark shipped' call on
\* it has returned its row without touching the stock
C5_Witness ==
    /\ AllIdle
    /\ DOMAIN shipments = {1}
    /\ shipments[1].status = "shipped"
    /\ deductCount[1] = 1
    /\ nCalls >= 2
    /\ outcome = [updatedStock |-> FALSE, result |-> "row"]

\* C6: when the resolved item holds less than the shipment's quantity, the call fails
\* with 'cannot ship' and neither the inventory nor any shipment has changed
C6_InsufficientStockFails ==
    [][\A p \in Procs :
          (/\ call[p].pc = "decrement"
           /\ call'[p] # call[p]
           /\ Val(call[p].invItem) \in DOMAIN items
           /\ items[Val(call[p].invItem)].total_quantity < call[p].requiredQty)
          => (/\ call'[p].pc = "idle"
              /\ outcome' = [updatedStock |-> FALSE, result |-> CannotShip]
              /\ items' = items
              /\ shipments' = shipments)]_vars

\* the only shipment asks for more than its item holds, the call on it has failed
\* with 'cannot ship', and the shipment has neither been shipped nor given a tracking number
C6_Witness ==
    /\ AllIdle
    /\ outcome.result = CannotShip
    /\ DOMAIN shipments = {1}
    /\ shipments[1].status = "processing"
    /\ IsNull(shipments[1].tracking_number)
    /\ TruthyStr(shipments[1].item_code)
    /\ \E i \in DOMAIN items :
          /\ items[i].item_code = Val(shipments[1].item_code)
          /\ items[i].total_quantity < requiredQtyOf(shipments[1].quantity)
          /\ items[i].total_quantity = stock0[i]

\* C7: when no inventory item matches the shipment's item code or its product
\* reference, a first 'mark shipped' call never reaches the stock or shipment UPDATE,
\* changes nothing and ends with 'cannot ship'
C7_UnresolvableItemFails ==
    [][\A p \in Procs :
          (/\ call[p].pc \in {"read", "byCode", "byProduct"}
           /\ call'[p] # call[p]
           /\ call[p].id \in DOMAIN shipments
           /\ LET sh == shipments[call[p].id]
              IN /\ Lower(sh.status) \notin {"shipped", "delivered"}
                 /\ requiredQtyOf(sh.quantity) > 0
                 /\ \/ IsNull(sh.item_code)
                    \/ \A i \in DOMAIN items : items[i].item_code # Val(sh.item_code)
                 /\ \/ IsNull(sh.product_id)
                    \/ \A i \in DOMAIN items : items[i].product_id # Val(sh.product_id))
          => (/\ call'[p].pc \in {"byCode", "byProduct", "idle"}
              /\ items' = items
              /\ shipments' = shipments
              /\ call'[p].pc = "idle" =>
                    outcome' = [updatedStock |-> FALSE, result |-> CannotShip])]_vars

\* the only shipment names an item code no item carries and has no product reference;
\* the call on it has failed with 'cannot ship' and the shipment is as it was created
C7_Witness ==
    /\ AllIdle
    /\ outcome.result = CannotShip
    /\ DOMAIN shipments = {1}
    /\ shipments[1].status = "processing"
    /\ IsNull(shipments[1].tracking_number)
    /\ requiredQtyOf(shipments[1].quantity) > 0
    /\ TruthyStr(shipments[1].item_code)
    /\ \A i \in DOMAIN items : items[i].item_code # Val(shipments[1].item_code)
    /\ IsNull(shipments[1].product_id)

\* C8: for every target status, a call on a shipment id that does not exist ends
\* with 'Order not found' and changes nothing (stated as the claim; the code breaks it)
C8_MissingShipmentNotFound ==
    [][\A p \in Procs :
          (call[p].pc # "idle" /\ call'[p].pc = "idle" /\ call[p].id \notin DOMAIN shipments)
          => (/\ outcome'.result = "Order not found"
              /\ items' = items
              /\ shipments' = shipments)]_vars

\* C9: a call changes a shipment's status only along processing -> shipped,
\* shipped -> delivered, processing -> cancelled, shipped -> cancelled
\* (stated as the claim; the code breaks it)
C9_ForwardOnly ==
    [][\A s \in DOMAIN shipments :
          (/\ \E p \in Procs : call[p].pc = "update" /\ call'[p].pc = "idle"
           /\ s \in DOMAIN shipments'
           /\ shipments[s].status \in {"processing", "shipped", "delivered", "cancelled"}
           /\ shipments'[s].status # shipments[s].status)
          => <<shipments[s].status, shipments'[s].status>> \in
                {<<"processing", "shipped">>, <<"shipped", "delivered">>,
                 <<"processing", "cancelled">>, <<"shipped", "cancelled">>}]_vars

\* C10: every shipment row is inserted with status 'processing'
\* (stated as the claim; the code breaks it)
C10_CreatedProcessing ==
    [][\A s \in DOMAIN shipments' :
          s \notin DOMAIN shipments => shipments'[s].status = "processing"]_vars

\* C11: once a shipment has a tracking number, no step of any call, under any
\* interleaving and with any target status, changes it
C11_TrackingStable ==
    [][\A s \in DOMAIN shipments :
          (s \in DOMAIN shipments' /\ ~IsNull(shipments[s].tracking_number))
          => shipments'[s].tracking_number = shipments[s].tracking_number]_vars

\* a call with another generated number is about to update a shipment that already
\* carries a tracking number from an earlier transition into 'shipped'
C11_Witness ==
    \E p \in Procs :
        /\ call[p].pc = "update"
        /\ Lower(call[p].status) = "shipped"
        /\ call[p].id \in DOMAIN shipments
        /\ ~IsNull(shipments[call[p].id].tracking_number)
        /\ shipments[call[p].id].tracking_number # call[p].generatedTracking
        /\ outcome.result = "row"

\* C12: a successful call assigns a tracking number exactly when it targets 'shipped'
\* and the shipment has none; the number is TRCK followed by a number in 100000..999999;
\* any other successful call leaves the tracking number as it was
C12_TrackingAssigned ==
    [][\A p \in Procs :
          (call[p].pc = "update" /\ call'[p].pc = "idle" /\ call[p].id \in DOMAIN shipments)
          => /\ outcome'.result = "row"
             /\ call[p].id \in DOMAIN shipments'
             /\ LET old == shipments[call[p].id].tracking_number
                    new == shipments'[call[p].id].tracking_number
                IN IF Lower(call[p].status) = "shipped" /\ IsNull(old)
                   THEN /\ ~IsNull(new)
                        /\ Val(new).prefix = "TRCK"
                        /\ Val(new).number \in 100000..999999
                   ELSE new = old]_vars

\* the only shipment is shipped, the call on it has returned its row, and the shipment
\* carries a tracking number
C12_Witness ==
    /\ AllIdle
    /\ outcome.result = "row"
    /\ DOMAIN shipments = {1}
    /\ shipments[1].status = "shipped"
    /\ ~IsNull(shipments[1].tracking_number)

\* C13: a stock decrement of q units from an item holding n >= q units leaves exactly
\* n - q; the item's status becomes 'out of stock' when n - q <= 0 and is otherwise kept;
\* no other item changes
C13_DecrementExact ==
    [][\A p \in Procs :
          (call[p].pc = "decrement" /\ call'[p].pc = "update")
          => LET i == Val(call[p].invItem)
                 n == items[i].total_quantity
                 q == call[p].requiredQty
             IN /\ n >= q
                /\ items'[i].total_quantity = n - q
                /\ (n - q <= 0) => items'[i].status = "out of stock"
                /\ (n - q > 0) => items'[i].status = items[i].status
                /\ \A j \in DOMAIN items : j # i => items'[j] = items[j]]_vars

\* an item has given all its stock to shipments: it holds 0 and is out of stock
C13_Witness ==
    \E i \in DOMAIN items :
        /\ deductQty[i] = stock0[i]
        /\ items[i].total_quantity = 0
        /\ items[i].status = "out of stock"
        /\ \E s \in DOMAIN shipments :
              Lower(shipments[s].status) = "shipped" /\ deductCount[s] = 1

\* C14: no step of a call whose target status is not 'shipped' changes any inventory item
C14_OnlyShippedTouchesStock ==
    [][\A p \in Procs :
          (call[p].pc # "idle" /\ call'[p] # call[p] /\ Lower(call[p].status) # "shipped")
          => items' = items]_vars

\* the only shipment, for a stocked item, has been cancelled by a successful call and
\* no item has lost stock
C14_Witness ==
    /\ AllIdle
    /\ outcome.result = "row"
    /\ DOMAIN shipments = {1}
    /\ shipments[1].status = "cancelled"
    /\ shipments[1].item_code = Some("A")
    /\ \A i \in DOMAIN items : items[i].total_quantity = stock0[i] /\ deductQty[i] = 0

\* C15: a step of a call changes at most one inventory item and no shipment other than
\* the one it was given, and a call that fails has changed nothing (stated as the claim;
\* the code breaks the last part)
C15_SingleCallFootprint ==
    [][\A p \in Procs :
          (call[p].pc # "idle" /\ call'[p] # call[p])
          => /\ Cardinality({i \in DOMAIN items : items'[i] # items[i]}) <= 1
             /\ DOMAIN shipments' = DOMAIN shipments
             /\ \A s \in DOMAIN shipments : s # call[p].id => shipments'[s] = shipments[s]
             /\ (call'[p].pc = "idle" /\ outcome'.result # "row")
                => (~outcome'.updatedStock /\ shipments' = shipments /\ items' = items)]_vars

\* C20: the status endpoint answers 200 only when the shipment was updated, 400 when the
\* item cannot be shipped or the shipment does not exist, whatever the requested status,
\* and 500 for every other error (stated as the claim; the code breaks it)
C20_StatusCodes ==
    outcome.result # "none"
    => httpStatusOf(outcome.result) =
          (CASE outcome.result = "row" -> 200
             [] outcome.result \in {CannotShip, "Order not found", "undefined"} -> 400
             [] OTHER -> 500)

\* C16: after any sequence of inventory operations and shipment transitions every
\* inventory item holds a quantity of at least 0 (stated as the claim; the code breaks it)
C16_QuantityNeverNegative == \A i \in DOMAIN items : items[i].total_quantity >= 0

\* C17: updateItemQuantity with 'subtract' or 'set' never stores a quantity below 0;
\* a result <= 0 marks the item 'out of stock' and a result > 0 leaves its status alone
\* (stated as the claim; the code breaks it for 'set')
C17_ClampedAtZero ==
    [][\A id \in DOMAIN items, n \in QuantityInputs, op \in {"subtract", "set"} :
          updateItemQuantity(id, n, op)
          => /\ items'[id].total_quantity >= 0
             /\ (items'[id].total_quantity <= 0) => items'[id].status = "out of stock"
             /\ (items'[id].total_quantity > 0) => items'[id].status = items[id].status]_vars

\* C18: once a sync run has completed, a later run over the same plans inserts no row
\* and changes no shipment
C18_SyncIdempotent ==
    [][\A p \in Procs :
          (sync.run[p].pc = "insert" /\ sync'.run[p].pc = "idle" /\ sync.runs >= 1)
          => shipments' = shipments]_vars

\* two runs have completed and the table holds the one row of the processed plan,
\* shipped since by a status request
C18_Witness ==
    /\ sync.runs >= 2
    /\ SyncIdle
    /\ DOMAIN shipments = {1}
    /\ shipments[1].product_id = Some(1)
    /\ shipments[1].order_id = "O1"
    /\ shipments[1].status = "shipped"

\* C19: under every interleaving of concurrent sync runs the table holds at most one
\* shipment per processed plan's order id (stated as the claim; the code breaks it)
C19_OneShipmentPerPlan ==
    \A pp \in Plans :
        pp.status = "processed"
        => Cardinality({s \in DOMAIN shipments : shipments[s].order_id = pp.order_id}) <= 1

\* C21: every report operation answers a storage failure with an empty or zeroed
\* result and throws nothing, while a storage failure in updateOrderShipmentStatus
\* reaches its caller (stated as the claim; the code breaks the first part)
C21_ReportsDegradeGracefully ==
    [][/\ (report' # report /\ report'.storage # "ok")
          => (~report'.threw /\ report'.value \in {"zeroed", "empty"})
       /\ \A p \in Procs : StorageFails(p) => outcome'.result = "storage error"]_vars

\* C22: a step that deletes a shipment, whatever its status, removes that shipment
\* only and leaves every inventory item as it was: no stock is given back
C22_DeleteKeepsInventory ==
    [][\A id \in DOMAIN shipments :
          id \notin DOMAIN shipments'
          => /\ items' = items
             /\ DOMAIN shipments' = DOMAIN shipments \ {id}
             /\ \A s \in DOMAIN shipments' : shipments'[s] = shipments[s]]_vars

\* a shipped shipment whose quantity was taken from item A has been deleted and the
\* item still misses that quantity
C22_Witness ==
    /\ DOMAIN shipments = {}
    /\ nextShipId = 2
    /\ deductCount[1] = 1
    /\ deductQty[1] > 0
    /\ items[1].total_quantity = stock0[1] - deductQty[1]
    /\ outcome.result = "row"

\* C23: the item a deducting call resolves is the item whose item_code equals the
\* shipment's item code when there is one; only when there is none it is an item with
\* the shipment's product_id, and then one with the largest total_quantity
C23_ResolutionOrder ==
    [][\A p \in Procs :
          (call[p].pc \in {"byCode", "byProduct"} /\ call'[p].pc = "decrement")
          => LET current == Val(call[p].current)
                 i == Val(call'[p].invItem)
                 byCode == {j \in DOMAIN items : /\ TruthyStr(current.item_code)
                                                 /\ items[j].item_code = Val(current.item_code)}
             IN IF byCode # {}
                THEN i \in byCode
                ELSE /\ TruthyNum(current.product_id)
                     /\ items[i].product_id = Val(current.product_id)
                     /\ \A j \in DOMAIN items :
                           items[j].product_id = Val(current.product_id)
                           => items[j].total_quantity <= items[i].total_quantity]_vars

\* a shipment whose item code matches no item has been shipped from item A, which
\* held more than item B of the same product
C23_Witness ==
    /\ AllIdle
    /\ DOMAIN shipments = {1}
    /\ shipments[1].item_code = Some("Z")
    /\ shipments[1].product_id = Some(1)
    /\ shipments[1].status = "shipped"
    /\ deductCount[1] = 1
    /\ stock0[1] > stock0[2]
    /\ deductQty[1] > 0
    /\ deductQty[2] = 0

\* C29: while the shipment's item code matches an item that holds less than the
\* shipment's quantity, no step of a deducting call changes any item and the call can
\* only end with 'you cannot ship the item', whatever other items of the product hold
C29_CodeMatchIsOnlyCandidate ==
    [][\A p \in Procs :
          (/\ call[p].pc \in {"byCode", "byProduct", "decrement"}
           /\ call'[p] # call[p]
           /\ TruthyStr(Val(call[p].current).item_code)
           /\ \E j \in DOMAIN items :
                 /\ items[j].item_code = Val(Val(call[p].current).item_code)
                 /\ items[j].total_quantity < call[p].requiredQty)
          => /\ items' = items
             /\ call'[p].pc \in {"decrement", "idle"}
             /\ call'[p].pc = "idle" => outcome'.result = CannotShip]_vars

\* a call has failed on a shipment whose item code names item A, which holds too
\* little, while item B of the shipment's product holds enough and was never touched
C29_Witness ==
    /\ AllIdle
    /\ outcome.result = CannotShip
    /\ DOMAIN shipments = {1}
    /\ shipments[1].item_code = Some("A")
    /\ shipments[1].product_id = Some(1)
    /\ items[1].total_quantity < requiredQtyOf(shipments[1].quantity)
    /\ items[2].product_id = 1
    /\ items[2].total_quantity >= requiredQtyOf(shipments[1].quantity)
    /\ deductQty[2] = 0

\* C24: a call never takes an empty date option for a date, and its
\* successful update stores each date that was taken and leaves each other stored
\* date as it was; an omitted, null or empty option never puts null over a stored date
C24_DatesOnlyWhenProvided ==
    [][\A p \in Procs :
          /\ (call[p].pc = "idle" /\ call'[p].pc # "idle")
             => (call'[p].setShipDate # Some("") /\ call'[p].setDeliveryDate # Some(""))
          /\ (call[p].pc = "update" /\ call'[p].pc = "idle" /\ outcome'.result = "row")
             => LET old == shipments[call[p].id]
                    new == shipments'[call[p].id]
                IN /\ new.ship_date = (IF call[p].setShipDate \in {Null, Some("")}
                                       THEN old.ship_date ELSE call[p].setShipDate)
                   /\ new.delivery_date = (IF call[p].setDeliveryDate \in {Null, Some("")}
                                           THEN old.delivery_date ELSE call[p].setDeliveryDate)]_vars

\* the synced shipment, which came with ship date D0, has been delivered by a call
\* that gave a delivery date and no ship date: D0 is still there next to the new date
C24_Witness ==
    /\ AllIdle
    /\ outcome.result = "row"
    /\ DOMAIN shipments = {1}
    /\ shipments[1].status = "delivered"
    /\ shipments[1].ship_date = Some("D0")
    /\ shipments[1].delivery_date = Some("D1")

\* C25: a first transition into 'shipped' of a shipment whose quantity is 0, null or
\* negative goes from reading the shipment straight to updating it, with no item
\* lookup and no decrement, and that update succeeds, sets the status and a tracking
\* number and leaves every inventory item as it was
C25_NoQuantityNoDeduction ==
    [][\A p \in Procs :
          (/\ call[p].pc \in {"read", "update"}
           /\ call'[p] # call[p]
           /\ Lower(call[p].status) = "shipped"
           /\ call[p].id \in DOMAIN shipments
           /\ Lower(shipments[call[p].id].status) \notin {"shipped", "delivered"}
           /\ (IsNull(shipments[call[p].id].quantity) \/ Val(shipments[call[p].id].quantity) <= 0))
          => /\ items' = items
             /\ call[p].pc = "read" => call'[p].pc = "update"
             /\ call[p].pc = "update"
                => /\ outcome' = [updatedStock |-> FALSE, result |-> "row"]
                   /\ shipments'[call[p].id].status = call[p].status
                   /\ ~IsNull(shipments'[call[p].id].tracking_number)]_vars

\* a shipment of quantity -1 whose item code matches no item has been shipped, has its
\* tracking number, and no item has lost stock
C25_Witness ==
    /\ AllIdle
    /\ outcome = [updatedStock |-> FALSE, result |-> "row"]
    /\ DOMAIN shipments = {1}
    /\ shipments[1].item_code = Some("Z")
    /\ shipments[1].quantity = Some(-1)
    /\ shipments[1].status = "shipped"
    /\ ~IsNull(shipments[1].tracking_number)
    /\ deductCount[1] = 0
    /\ \A i \in DOMAIN items : items[i].total_quantity = stock0[i]

\* the waits of one initialization run, in order
Waits == <<1000, 1500, 2250, 3375>>

\* C26: an initialization run makes at most 5 attempts, waits 1000 ms after the first
\* failure and 1.5 times longer after each further one, never more than 5000 ms, is
\* started at most once whatever the number of callers, and once started it ends,
\* with the handle set or null
C26_InitTerminates ==
    /\ [](/\ db.attempts <= Retries
          /\ db.started <= 1
          /\ db.delay <= MaxDelay
          /\ db.waited <= MaxDelay
          /\ db.run = "wait" => db.delay = Waits[db.attempts]
          /\ db.run = "done" => db.connectionPromise = "resolved"
          /\ db.sql => db.run = "done")
    /\ (db.run # "none") ~> (db.run = "done")

\* two callers asked for the handle while the run was going, the run failed 5 times,
\* waited 3375 ms before its last attempt, and both callers came back without a handle
C26_Witness ==
    /\ db.run = "done"
    /\ ~db.sql
    /\ db.attempts = Retries
    /\ db.waited = 3375
    /\ db.started = 1
    /\ db.gets >= 2
    /\ \A p \in Procs : db.caller[p] = "idle"
    /\ db.returned = "null"

\* C27: once an initialization run has ended without a handle, no step starts a new
\* run or makes a new attempt, and the handle stays null
C27_FailedInitIsFinal ==
    [][(db.run = "done" /\ ~db.sql)
       => /\ db'.run = "done"
          /\ ~db'.sql
          /\ db'.attempts = db.attempts
          /\ db'.started = db.started
          /\ db'.connectionPromise = "resolved"]_vars

\* with no DATABASE_URL the run ended at once without an attempt; every caller since,
\* the last of them after the run had ended, came back without a handle
C27_Witness ==
    /\ db.run = "done"
    /\ ~db.sql
    /\ db.attempts = 0
    /\ db.started = 1
    /\ db.gets = MaxGets
    /\ \A p \in Procs : db.caller[p] = "idle"
    /\ db.returned = "null"

\* C28: no step of a call that targets 'delivered', and no step of a call that targets
\* 'shipped' on a shipment that is 'delivered', takes anything from inventory; so a
\* shipment can be delivered and then shipped without its quantity ever being deducted
C28_DeliveredSkipsDeduction ==
    [][\A p \in Procs :
          (/\ call[p].pc # "idle"
           /\ call'[p] # call[p]
           /\ call[p].id \in DOMAIN shipments
           /\ \/ Lower(call[p].status) = "delivered"
              \/ /\ Lower(call[p].status) = "shipped"
                 /\ Lower(shipments[call[p].id].status) = "delivered")
          => (items' = items /\ deductCount' = deductCount /\ deductQty' = deductQty)]_vars

\* a shipment of a stocked item is 'shipped' with its tracking number, and nothing was
\* ever deducted for it: it went through 'delivered' first
C28_Witness ==
    /\ AllIdle
    /\ outcome = [updatedStock |-> FALSE, result |-> "row"]
    /\ DOMAIN shipments = {1}
    /\ shipments[1].status = "shipped"
    /\ shipments[1].item_code = Some("A")
    /\ shipments[1].quantity = Some(1)
    /\ ~IsNull(shipments[1].tracking_number)
    /\ deductCount[1] = 0
    /\ \A i \in DOMAIN items : items[i].total_quantity = stock0[i]

\* C30: with shipment transitions only, what an item has lost since the start is
\* exactly the sum of the quantities of the deducting transitions resolved to it
C30_StockConservation ==
    \A i \in DOMAIN items : stock0[i] - items[i].total_quantity = deductQty[i]

\* a shipment whose quantity was taken from item A has been cancelled since, and the
\* item still misses exactly what was deducted
C30_Witness ==
    /\ AllIdle
    /\ DOMAIN shipments = {1}
    /\ shipments[1].status = "cancelled"
    /\ deductCount[1] >= 1
    /\ deductQty[1] > 0
    /\ items[1].total_quantity = stock0[1] - deductQty[1]

====
